---- MODULE Spec2Model ----
(***************************************************************************)
(* Model of the EloWard rank lookup layer of useEloWardRanks.ts: the LRU   *)
(* cache with positive / negative expiry, the registry of pending          *)
(* requests, the fetch coordinator and the reactive badge store.           *)
(*                                                                         *)
(* JavaScript strings are sequences of one-character strings, so that      *)
(* toLowerCase / toUpperCase are computed character by character.          *)
(* Time is counted in units of NEGATIVE_CACHE_DURATION (15 minutes).       *)
(*                                                                         *)
(* One action is one turn of the event loop: the synchronous code of a     *)
(* call or of a resumed request promise, together with the promise         *)
(* callbacks (microtasks) it leaves behind.                                *)
(***************************************************************************)
EXTENDS Integers, Sequences, FiniteSets, TLC

\* ------------------------------------------------------------------ bounds

\* Request promises that may be in flight at once.
MaxLookups == 2

\* Capacity of rankCache. The source sets 500; the model scales it down so
\* that eviction is reached with three usernames.
MAX_CACHE_SIZE == 2

\* ------------------------------------------------------------- JS strings

LowerChar(c) ==
    CASE c = "A" -> "a" [] c = "B" -> "b" [] c = "C" -> "c" [] c = "D" -> "d"
      [] c = "E" -> "e" [] c = "F" -> "f" [] c = "G" -> "g" [] c = "H" -> "h"
      [] c = "I" -> "i" [] c = "J" -> "j" [] c = "K" -> "k" [] c = "L" -> "l"
      [] c = "M" -> "m" [] c = "N" -> "n" [] c = "O" -> "o" [] c = "P" -> "p"
      [] c = "Q" -> "q" [] c = "R" -> "r" [] c = "S" -> "s" [] c = "T" -> "t"
      [] c = "U" -> "u" [] c = "V" -> "v" [] c = "W" -> "w" [] c = "X" -> "x"
      [] c = "Y" -> "y" [] c = "Z" -> "z"
      [] OTHER -> c

UpperChar(c) ==
    CASE c = "a" -> "A" [] c = "b" -> "B" [] c = "c" -> "C" [] c = "d" -> "D"
      [] c = "e" -> "E" [] c = "f" -> "F" [] c = "g" -> "G" [] c = "h" -> "H"
      [] c = "i" -> "I" [] c = "j" -> "J" [] c = "k" -> "K" [] c = "l" -> "L"
      [] c = "m" -> "M" [] c = "n" -> "N" [] c = "o" -> "O" [] c = "p" -> "P"
      [] c = "q" -> "Q" [] c = "r" -> "R" [] c = "s" -> "S" [] c = "t" -> "T"
      [] c = "u" -> "U" [] c = "v" -> "V" [] c = "w" -> "W" [] c = "x" -> "X"
      [] c = "y" -> "Y" [] c = "z" -> "Z"
      [] OTHER -> c

toLowerCase(s) == [i \in 1..Len(s) |-> LowerChar(s[i])]

toUpperCase(s) == [i \in 1..Len(s) |-> UpperChar(s[i])]

\* The usernames the callers pass under Spec: "", "Foo", "foo".
Usernames == { <<>>, <<"F", "o", "o">>, <<"f", "o", "o">> }

\* The usernames the callers pass under SpecLRU: "foo", "bar", "BAZ".
ManyUsernames == { <<"f", "o", "o">>, <<"b", "a", "r">>, <<"B", "A", "Z">> }

\* The useEloWardRanks() instances, each with its own isLoading ref.
Instances == {"i1"}

\* The instants at which Date.now() is read, in time units: an entry set at 0
\* is one negative lifetime old at 1; at 5 an entry set at 0 is past the
\* positive lifetime and one set at 1 is exactly as old as it.
Clock == <<0, 1, 5>>

\* ---------------------------------------------------------------- values

Undefined == [kind |-> "undefined"]

NullData == [kind |-> "null"]

DEFAULT_CACHE_DURATION == (60 * 60 * 1000) \div (15 * 60 * 1000)

NEGATIVE_CACHE_DURATION == (15 * 60 * 1000) \div (15 * 60 * 1000)

RANK_TIERS ==
    { <<"i", "r", "o", "n">>, <<"b", "r", "o", "n", "z", "e">>,
      <<"s", "i", "l", "v", "e", "r">>, <<"g", "o", "l", "d">>,
      <<"p", "l", "a", "t", "i", "n", "u", "m">>, <<"e", "m", "e", "r", "a", "l", "d">>,
      <<"d", "i", "a", "m", "o", "n", "d">>, <<"m", "a", "s", "t", "e", "r">>,
      <<"g", "r", "a", "n", "d", "m", "a", "s", "t", "e", "r">>,
      <<"c", "h", "a", "l", "l", "e", "n", "g", "e", "r">>,
      <<"u", "n", "r", "a", "n", "k", "e", "d">> }

\* ------------------------------------------------------- Map (ordered keys)

\* A JavaScript Map<string, CacheEntry> is a sequence of entries in insertion
\* order; each entry carries its key.
MapHas(m, key) == \E i \in 1..Len(m) : m[i].key = key

MapIndex(m, key) == CHOOSE i \in 1..Len(m) : m[i].key = key

MapDelete(m, key) ==
    IF MapHas(m, key)
    THEN LET i == MapIndex(m, key) IN SubSeq(m, 1, i - 1) \o SubSeq(m, i + 1, Len(m))
    ELSE m

\* Map.prototype.set: an existing key keeps its position, a new key goes last.
MapSet(m, key, entry) ==
    IF MapHas(m, key)
    THEN [m EXCEPT ![MapIndex(m, key)] = entry]
    ELSE Append(m, entry)

MapKeys(m) == {m[i].key : i \in 1..Len(m)}

\* ---------------------------------------------------------------- LRUCache

\* Expiry with the positive lifetime for every entry.
ExpiredOneDuration(entry, t) == t - entry.timestamp > DEFAULT_CACHE_DURATION

\* `now - entry.timestamp > cacheDuration`
Expired(entry, t) ==
    t - entry.timestamp >
        (IF entry.data.kind = "null" THEN NEGATIVE_CACHE_DURATION ELSE DEFAULT_CACHE_DURATION)

\* LRUCache.get: the value returned and the cache it leaves.
LRUCache_get(c, username, t) ==
    LET key == toLowerCase(username) IN
    IF ~MapHas(c, key) THEN [value |-> Undefined, cache |-> c]
    ELSE LET entry == c[MapIndex(c, key)] IN
         IF Expired(entry, t)
         THEN [value |-> Undefined, cache |-> MapDelete(c, key)]
         ELSE [value |-> entry.data, cache |-> MapSet(MapDelete(c, key), key, entry)]

\* LRUCache.set without its eviction step.
EvictNothing(c, key) == c

\* The eviction step of LRUCache.set.
EvictOldest(c, key) ==
    IF Len(c) >= MAX_CACHE_SIZE /\ ~MapHas(c, key)
    THEN LET firstKey == c[1].key IN
         IF firstKey # <<>> THEN MapDelete(c, firstKey) ELSE c
    ELSE c

LRUCache_set(c, username, data, t) ==
    LET key == toLowerCase(username) IN
    MapSet(EvictOldest(c, key), key, [key |-> key, data |-> data, timestamp |-> t])

\* ------------------------------------------------------------------ state

VARIABLES
    enabled,          \* useConfig("eloward.enabled"): the feature flag
    now,              \* Date.now(), in time units
    rankCache,        \* rankCache.cache: a Map, as a sequence of entries
    pendingRequests,  \* pendingRequests: normalized username -> promise
    userBadges,       \* globalData.userBadges: normalized username -> badge | null
    isLoading,        \* isLoading.value of each instance
    lookups,          \* the request promises (async IIFEs) in flight
    touched,          \* history: the cached keys, least recently touched first
    notFound,         \* history: key -> time of its 404, while no reset or eviction
    lastOp,           \* history: the last operation, its branch and what it returned
    handle            \* the ref a component keeps from its useEloWardBadge call

vars ==
    <<enabled, now, rankCache, pendingRequests, userBadges, isLoading, lookups,
      touched, notFound, lastOp, handle>>

\* A promise is fulfilled with a value, or is the promise of lookup id.
Fulfilled(v) == [state |-> "fulfilled", value |-> v, id |-> 0]

PromiseOf(id) == [state |-> "pending", value |-> Undefined, id |-> id]

\* The request promise with no catch clause: it rejects with the error.
Rethrown(error) == [state |-> "rejected", value |-> Undefined, id |-> 0]

\* `catch (error) { ...; return null; }`: the request promise is fulfilled
\* with null whatever was thrown in its body.
Caught(error) == Fulfilled(NullData)

\* The request promise once its body is left on `path` with `result`.
Outcome(path, result) ==
    IF path \in {"exception", "threw"} THEN Caught(path) ELSE Fulfilled(result)

\* Plain objects keyed by strings, and Maps whose order is never read.
ObjSet(o, key, v) == [k \in DOMAIN o \cup {key} |-> IF k = key THEN v ELSE o[k]]

ObjDelete(o, key) == [k \in DOMAIN o \ {key} |-> o[k]]

EmptyObj == [k \in {} |-> Undefined]

\* No handle was handed out yet.
NoHandle == [kind |-> "none"]

\* `toRef(globalData.userBadges, normalizedUsername)`: a ref onto the property
\* key of the object that globalData.userBadges is when the ref is made.
\* While that object is the store the ref is live; once clearCache has put a
\* new object in its place the ref reads the old object, which nothing
\* writes any more, and value is what it reads.
LiveRef(key) == [kind |-> "ref", key |-> key, live |-> TRUE, value |-> Undefined]

\* `ref(null)`, and a ref onto an object that is no longer the store.
DetachedRef(key, value) == [kind |-> "ref", key |-> key, live |-> FALSE, value |-> value]

\* What handle.value reads when the store is `store`.
HandleValue(h, store) ==
    IF h.live THEN (IF h.key \in DOMAIN store THEN store[h.key] ELSE Undefined)
    ELSE h.value

\* The handle after `globalData.userBadges = {}` replaced the store.
Orphaned(h, store) ==
    IF h.kind = "ref" /\ h.live THEN DetachedRef(h.key, HandleValue(h, store)) ELSE h


\* The order of last touch after an operation on key left the cache as c.
Recency(ts, c, key) ==
    LET kept == SelectSeq(ts, LAMBDA k : k \in MapKeys(c) /\ k # key) IN
    IF key \in MapKeys(c) THEN Append(kept, key) ELSE kept

\* The 404 history once the cache is c: a key that left the cache is forgotten.
StillCached(nf, c) == [k \in DOMAIN nf \cap MapKeys(c) |-> nf[k]]

\* The entries of cache c whose key cache c2 no longer holds.
Removed(c, c2) == {c[i] : i \in {j \in 1..Len(c) : c[j].key \notin MapKeys(c2)}}

\* The record of an operation: its name, the username it was given, the
\* branch it took, what it returned, whether it issued a network call, and
\* the cache entries it removed.
Op(op, user, path, ret, net) ==
    [op |-> op, user |-> user, path |-> path, ret |-> ret, net |-> net,
     removed |-> Removed(rankCache, rankCache')]

Internal(op, user, path, ret) == Op(op, user, path, ret, FALSE)

Init ==
    /\ enabled \in BOOLEAN
    /\ now = Clock[1]
    /\ rankCache = <<>>
    /\ pendingRequests = EmptyObj
    /\ userBadges = EmptyObj
    /\ isLoading = [i \in Instances |-> FALSE]
    /\ lookups = EmptyObj
    /\ touched = <<>>
    /\ notFound = EmptyObj
    /\ lastOp = [op |-> "init", user |-> <<>>, path |-> "", ret |-> Undefined,
                 net |-> FALSE, removed |-> {}]
    /\ handle = NoHandle

\* ------------------------------------------------------------ badge projector

\* getRankBadge, reduced to the fields the lookup layer distinguishes.
getRankBadge(rankData) ==
    IF rankData.kind # "rank" \/ Len(rankData.tier) = 0 THEN NullData
    ELSE IF toLowerCase(rankData.tier) \notin RANK_TIERS THEN NullData
    ELSE [kind |-> "badge",
          id |-> <<"eloward-">> \o toLowerCase(rankData.tier),
          tier |-> toUpperCase(rankData.tier)]

\* `rankData ? getRankBadge(rankData) : null`
BadgeFor(rankData) == IF rankData.kind = "null" THEN NullData ELSE getRankBadge(rankData)

\* ------------------------------------------------------------ fetchRankData

\* The guard without the feature flag.
SkipsIgnoringFlag(username) == Len(username) = 0

\* `if (!enabled.value || !username)`
Skips(username) == ~enabled \/ Len(username) = 0

\* The username taken as the key in the spelling it came in.
NormalizeIdentity(username) == username

\* `const normalizedUsername = username.toLowerCase()`
Normalize(username) == toLowerCase(username)

FreeIds == {i \in 1..MaxLookups : i \notin DOMAIN lookups}

NewId == CHOOSE i \in FreeIds : \A j \in FreeIds : i <= j

\* `rankCache.get(normalizedUsername)` as a call runs it: the cache it leaves
\* and the histories that follow it.
ReadsCache(username) ==
    LET key == Normalize(username)
        got == LRUCache_get(rankCache, key, now) IN
    /\ rankCache' = got.cache
    /\ touched' = Recency(touched, got.cache, key)
    /\ notFound' = StillCached(notFound, got.cache)

\* The disabled / empty-username return of fetchRankData.
FetchSkipped(inst, username) ==
    /\ Skips(username)
    /\ UNCHANGED <<handle, enabled, now, rankCache, pendingRequests, userBadges, isLoading,
                   lookups, touched, notFound>>
    /\ lastOp' = Op("fetchRankData", username, "skipped", Fulfilled(NullData), FALSE)

\* rankCache.get(normalizedUsername) answered: the cached value is returned.
FetchCacheHit(inst, username) ==
    LET key == Normalize(username)
        got == LRUCache_get(rankCache, key, now) IN
    /\ ~Skips(username)
    /\ got.value # Undefined
    /\ ReadsCache(username)
    /\ UNCHANGED <<handle, enabled, now, pendingRequests, userBadges, isLoading, lookups>>
    /\ lastOp' = Op("fetchRankData", username, "hit", Fulfilled(got.value), FALSE)

\* pendingRequests.has(normalizedUsername): the registered promise is returned.
FetchPendingExists(inst, username) ==
    LET key == Normalize(username)
        got == LRUCache_get(rankCache, key, now) IN
    /\ ~Skips(username)
    /\ got.value = Undefined
    /\ key \in DOMAIN pendingRequests
    /\ ReadsCache(username)
    /\ UNCHANGED <<handle, enabled, now, pendingRequests, userBadges, isLoading, lookups>>
    /\ lastOp' = Op("fetchRankData", username, "pending", pendingRequests[key], FALSE)

\* The registry after `pendingRequests.set(normalizedUsername, requestPromise)`.
Register(reg, key, promise) == ObjSet(reg, key, promise)

\* The request promise runs up to `await fetch(...)`, then it is registered.
\* `then` says that getOrFetchBadge attached its callback to the promise.
StartLookup(inst, username, op, then) ==
    LET key == Normalize(username)
        got == LRUCache_get(rankCache, key, now)
        id == NewId IN
    /\ ~Skips(username)
    /\ got.value = Undefined
    /\ key \notin DOMAIN pendingRequests
    /\ FreeIds # {}
    /\ ReadsCache(username)
    /\ isLoading' = [isLoading EXCEPT ![inst] = TRUE]
    /\ lookups' = ObjSet(lookups, id,
                         [key |-> key, inst |-> inst, phase |-> "fetching", then |-> then])
    /\ pendingRequests' = Register(pendingRequests, key, PromiseOf(id))
    /\ UNCHANGED <<handle, enabled, now, userBadges>>
    /\ lastOp' = Op(op, username, "start",
                    IF then THEN Undefined ELSE PromiseOf(id), TRUE)

\* The request promise throws before its first await (fetch or
\* AbortSignal.timeout throws): catch and finally run at once, the promise is
\* fulfilled with null, and only then is it registered. The callback of
\* getOrFetchBadge runs at the end of the turn.
StartLookupThrows(inst, username, op, then) ==
    LET key == Normalize(username)
        got == LRUCache_get(rankCache, key, now) IN
    /\ ~Skips(username)
    /\ got.value = Undefined
    /\ key \notin DOMAIN pendingRequests
    /\ ReadsCache(username)
    /\ isLoading' = [isLoading EXCEPT ![inst] = FALSE]
    /\ pendingRequests' =
           Register(ObjDelete(pendingRequests, key), key, Outcome("threw", NullData))
    /\ userBadges' = IF then THEN ObjSet(userBadges, key, BadgeFor(NullData))
                     ELSE userBadges
    /\ UNCHANGED <<handle, enabled, now, lookups>>
    /\ lastOp' = Op(op, username, "threw",
                    IF then THEN Undefined ELSE Outcome("threw", NullData), FALSE)

FetchStart(inst, username) == StartLookup(inst, username, "fetchRankData", FALSE)

FetchStartThrows(inst, username) ==
    StartLookupThrows(inst, username, "fetchRankData", FALSE)

fetchRankData(inst, username) ==
    \/ FetchSkipped(inst, username)
    \/ FetchCacheHit(inst, username)
    \/ FetchPendingExists(inst, username)
    \/ FetchStart(inst, username)
    \/ FetchStartThrows(inst, username)

\* ---------------------------------------------------------- getCachedRankData

PeekSkipped(inst, username) ==
    /\ Skips(username)
    /\ UNCHANGED <<handle, enabled, now, rankCache, pendingRequests, userBadges, isLoading,
                   lookups, touched, notFound>>
    /\ lastOp' = Op("getCachedRankData", username, "skipped", Undefined, FALSE)

\* A peek that also projects what it read into the badge store.
PeekStoring(inst, username) ==
    LET key == Normalize(username)
        got == LRUCache_get(rankCache, key, now) IN
    /\ ~Skips(username)
    /\ ReadsCache(username)
    /\ userBadges' = ObjSet(userBadges, key, BadgeFor(got.value))
    /\ UNCHANGED <<handle, enabled, now, pendingRequests, isLoading, lookups>>
    /\ lastOp' = Op("getCachedRankData", username, "get", got.value, FALSE)

\* `rankCache.get(normalizedUsername)` and its result returned.
PeekCache(inst, username) ==
    LET key == Normalize(username)
        got == LRUCache_get(rankCache, key, now) IN
    /\ ~Skips(username)
    /\ ReadsCache(username)
    /\ UNCHANGED <<handle, enabled, now, pendingRequests, userBadges, isLoading, lookups>>
    /\ lastOp' = Op("getCachedRankData", username, "get", got.value, FALSE)

getCachedRankData(inst, username) ==
    \/ PeekSkipped(inst, username)
    \/ PeekCache(inst, username)

\* ------------------------------------------------------------ getOrFetchBadge

BadgeSkipped(inst, username) ==
    /\ Skips(username)
    /\ UNCHANGED <<handle, enabled, now, rankCache, pendingRequests, userBadges, isLoading,
                   lookups, touched, notFound>>
    /\ lastOp' = Op("getOrFetchBadge", username, "skipped", Undefined, FALSE)

BadgeCacheHit(inst, username) ==
    LET key == Normalize(username)
        got == LRUCache_get(rankCache, key, now) IN
    /\ ~Skips(username)
    /\ got.value # Undefined
    /\ ReadsCache(username)
    /\ userBadges' = ObjSet(userBadges, key, BadgeFor(got.value))
    /\ UNCHANGED <<handle, enabled, now, pendingRequests, isLoading, lookups>>
    /\ lastOp' = Op("getOrFetchBadge", username, "hit", Undefined, FALSE)

BadgePendingExists(inst, username) ==
    LET key == Normalize(username)
        got == LRUCache_get(rankCache, key, now) IN
    /\ ~Skips(username)
    /\ got.value = Undefined
    /\ key \in DOMAIN pendingRequests
    /\ ReadsCache(username)
    /\ UNCHANGED <<handle, enabled, now, pendingRequests, userBadges, isLoading, lookups>>
    /\ lastOp' = Op("getOrFetchBadge", username, "pending", Undefined, FALSE)

\* `fetchRankData(username).then(...)`: the cache was just read as a miss and
\* the registry has no entry, so fetchRankData starts the request promise.
BadgeStart(inst, username) == StartLookup(inst, username, "getOrFetchBadge", TRUE)

BadgeStartThrows(inst, username) ==
    StartLookupThrows(inst, username, "getOrFetchBadge", TRUE)

getOrFetchBadge(inst, username) ==
    \/ BadgeSkipped(inst, username)
    \/ BadgeCacheHit(inst, username)
    \/ BadgePendingExists(inst, username)
    \/ BadgeStart(inst, username)
    \/ BadgeStartThrows(inst, username)

\* ------------------------------------------------- the request promise's body

\* JavaScript values of the response body's fields.
JsString(chars) == [kind |-> "string", chars |-> chars]

JsNumber(n) == [kind |-> "number", n |-> n]

\* `!v` is false
Truthy(v) ==
    CASE v.kind = "string" -> Len(v.chars) > 0
      [] v.kind = "number" -> v.n # 0
      [] OTHER -> FALSE

\* The bodies response.json() may yield: null, {}, and objects whose rank_tier
\* is "Gold", "wood", "" or the number 5.
Bodies ==
    { NullData,
      [kind |-> "object", rank_tier |-> Undefined],
      [kind |-> "object", rank_tier |-> JsString(<<"G", "o", "l", "d">>)],
      [kind |-> "object", rank_tier |-> JsString(<<"w", "o", "o", "d">>)],
      [kind |-> "object", rank_tier |-> JsString(<<>>)],
      [kind |-> "object", rank_tier |-> JsNumber(5)] }

\* How the lines after `await response.json()` end for a body:
\* "exception" (a TypeError is caught), "invalid" or "success".
Classify(data) ==
    IF data.kind # "object" THEN "exception"
    ELSE IF ~Truthy(data.rank_tier) THEN "invalid"
    ELSE IF data.rank_tier.kind # "string" THEN "exception"
    ELSE IF toLowerCase(data.rank_tier.chars) \notin RANK_TIERS THEN "invalid"
    ELSE "success"

\* The EloWardRankData built from a valid body.
RankDataOf(data) == [kind |-> "rank", tier |-> data.rank_tier.chars]

\* `finally { ...; pendingRequests.delete(normalizedUsername) }`
Deregister(reg, key) == ObjDelete(reg, key)

\* The cache after the exit path `path` of a request promise for key.
CacheAfter(c, key, path, result, t) ==
    IF path \in {"404", "invalid", "success"} THEN LRUCache_set(c, key, result, t) ELSE c

\* The request promise id returns result on the exit path `path`. The finally
\* block runs, the promise is fulfilled, and the callback of getOrFetchBadge,
\* if one is attached, stores the badge.
Settle(id, path, result) ==
    LET L == lookups[id]
        c == CacheAfter(rankCache, L.key, path, result, now) IN
    /\ rankCache' = c
    /\ touched' = IF path \in {"404", "invalid", "success"}
                  THEN Recency(touched, c, L.key) ELSE touched
    /\ notFound' = IF path = "404" THEN ObjSet(StillCached(notFound, c), L.key, now)
                   ELSE StillCached(notFound, c)
    /\ isLoading' = [isLoading EXCEPT ![L.inst] = FALSE]
    /\ pendingRequests' = Deregister(pendingRequests, L.key)
    /\ lookups' = ObjDelete(lookups, id)
    /\ userBadges' = IF L.then THEN ObjSet(userBadges, L.key, BadgeFor(result))
                     ELSE userBadges
    /\ UNCHANGED <<handle, enabled, now>>
    /\ lastOp' = Internal("settle", L.key, path, Outcome(path, result))

Fetching(id) == id \in DOMAIN lookups /\ lookups[id].phase = "fetching"

Parsing(id) == id \in DOMAIN lookups /\ lookups[id].phase = "parsing"

\* `response.status === 404`
FetchNotFound(id) == Fetching(id) /\ Settle(id, "404", NullData)

\* `!response.ok`
FetchNotOk(id) == Fetching(id) /\ Settle(id, "error", NullData)

\* fetch rejects: network error, abort, or the 5 s timeout.
FetchRejects(id) == Fetching(id) /\ Settle(id, "exception", NullData)

\* A success status: the body is awaited next.
FetchOk(id) ==
    /\ Fetching(id)
    /\ lookups' = [lookups EXCEPT ![id].phase = "parsing"]
    /\ UNCHANGED <<handle, enabled, now, rankCache, pendingRequests, userBadges, isLoading,
                   touched, notFound>>
    /\ lastOp' = Internal("response", <<>>, "ok", Undefined)

\* response.json() resolves with a body.
ParseDone(id, data) ==
    /\ Parsing(id)
    /\ Settle(id, Classify(data),
              IF Classify(data) = "success" THEN RankDataOf(data) ELSE NullData)

\* response.json() rejects (the body is no JSON, or the read is aborted).
ParseRejects(id) == Parsing(id) /\ Settle(id, "exception", NullData)

\* ------------------------------------------------------------------ the rest

\* A reset of the cache alone.
clearCacheOnly(inst) ==
    /\ rankCache' = <<>>
    /\ touched' = <<>>
    /\ notFound' = EmptyObj
    /\ UNCHANGED <<enabled, now, pendingRequests, userBadges, isLoading, lookups, handle>>
    /\ lastOp' = Op("clearCache", <<>>, "", Undefined, FALSE)

clearCache(inst) ==
    /\ rankCache' = <<>>
    /\ pendingRequests' = EmptyObj
    /\ userBadges' = EmptyObj
    /\ touched' = <<>>
    /\ notFound' = EmptyObj
    /\ handle' = Orphaned(handle, userBadges)
    /\ UNCHANGED <<enabled, now, isLoading, lookups>>
    /\ lastOp' = Op("clearCache", <<>>, "", Undefined, FALSE)

\* `toRef(globalData.userBadges, normalizedUsername)`, or `ref(null)` for an
\* empty username.
BadgeRefOf(username) ==
    IF Len(username) = 0 THEN DetachedRef(username, NullData)
    ELSE LiveRef(Normalize(username))

\* useEloWardBadge(username): a missing (or null) store entry is created as
\* null and a ref onto the entry is returned; `keep` says that the caller
\* holds on to the ref.
BadgeRefCall(username, keep) ==
    LET key == Normalize(username) IN
    /\ userBadges' = IF Len(username) # 0 /\ (key \notin DOMAIN userBadges \/ userBadges[key] = NullData)
                     THEN ObjSet(userBadges, key, NullData) ELSE userBadges
    /\ handle' = IF keep THEN BadgeRefOf(username) ELSE handle
    /\ UNCHANGED <<enabled, now, rankCache, pendingRequests, isLoading, lookups,
                   touched, notFound>>
    /\ lastOp' = Op("useEloWardBadge", username, "", BadgeRefOf(username), FALSE)

\* A call whose ref is read once and dropped.
useEloWardBadge(username) == BadgeRefCall(username, FALSE)

\* A call by a component that keeps the ref for as long as it is mounted.
BindBadge(username) == BadgeRefCall(username, TRUE)

\* The clock reaches its next instant.
Tick ==
    /\ \E i \in 1..(Len(Clock) - 1) : now = Clock[i] /\ now' = Clock[i + 1]
    /\ UNCHANGED <<handle, enabled, rankCache, pendingRequests, userBadges, isLoading, lookups,
                   touched, notFound>>
    /\ lastOp' = Internal("tick", <<>>, "", Undefined)

\* The user switches the eloward.enabled setting.
SetEnabled ==
    /\ enabled' = ~enabled
    /\ UNCHANGED <<handle, now, rankCache, pendingRequests, userBadges, isLoading, lookups,
                   touched, notFound>>
    /\ lastOp' = Internal("config", <<>>, "", Undefined)

\* A turn of a request promise in flight.
Completion ==
    \/ \E id \in 1..MaxLookups : FetchNotFound(id)
    \/ \E id \in 1..MaxLookups : FetchNotOk(id)
    \/ \E id \in 1..MaxLookups : FetchRejects(id)
    \/ \E id \in 1..MaxLookups : FetchOk(id)
    \/ \E id \in 1..MaxLookups, data \in Bodies : ParseDone(id, data)
    \/ \E id \in 1..MaxLookups : ParseRejects(id)

\* The turns of the request promise id.
Progress(id) ==
    \/ FetchNotFound(id)
    \/ FetchNotOk(id)
    \/ FetchRejects(id)
    \/ FetchOk(id)
    \/ \E data \in Bodies : ParseDone(id, data)
    \/ ParseRejects(id)

\* Every operation, for one username in its spellings.
Next ==
    \/ \E inst \in Instances, username \in Usernames : fetchRankData(inst, username)
    \/ \E inst \in Instances, username \in Usernames : getCachedRankData(inst, username)
    \/ \E inst \in Instances, username \in Usernames : getOrFetchBadge(inst, username)
    \/ \E username \in Usernames : useEloWardBadge(username)
    \/ \E inst \in Instances : clearCache(inst)
    \/ Completion
    \/ Tick
    \/ SetEnabled

Spec == Init /\ [][Next]_vars

\* The cache under three usernames, more than it holds: fetchRankData (whose
\* cache read is the rankCache.get of every caller) and clearCache, with the
\* setting and the clock left as they start.
NextLRU ==
    \/ \E inst \in Instances, username \in ManyUsernames : fetchRankData(inst, username)
    \/ \E inst \in Instances : clearCache(inst)
    \/ Completion

SpecLRU == Init /\ [][NextLRU]_vars

\* The lookups alone (fetchRankData, getOrFetchBadge, clearCache and the
\* completions) with the guarantee that a request promise in flight gets its
\* turns: fetch settles within the 5 s of AbortSignal.timeout, and the body
\* read ends or is aborted by the same signal.
NextLive ==
    \/ \E inst \in Instances, username \in Usernames : fetchRankData(inst, username)
    \/ \E inst \in Instances, username \in Usernames : getOrFetchBadge(inst, username)
    \/ \E inst \in Instances : clearCache(inst)
    \/ Completion

SpecLive == Init /\ [][NextLive]_vars /\ \A id \in 1..MaxLookups : WF_vars(Progress(id))

\* A component bound to the badge of a username, the badge lookups that
\* fill the store, and resets.
NextBadge ==
    \/ \E username \in Usernames : BindBadge(username)
    \/ \E inst \in Instances, username \in Usernames : getOrFetchBadge(inst, username)
    \/ \E inst \in Instances : clearCache(inst)
    \/ Completion

SpecBadge == Init /\ [][NextBadge]_vars

\* ------------------------------------------------------------ formatRankText

\* A decimal digit as a character.
DigitChar(d) == <<"0", "1", "2", "3", "4", "5", "6", "7", "8", "9">>[d + 1]

\* A non-negative integer as `${n}` renders it.
RECURSIVE NumberToString(_)
NumberToString(n) ==
    IF n < 10 THEN <<DigitChar(n)>>
    ELSE NumberToString(n \div 10) \o <<DigitChar(n % 10)>>

\* `${v}` for a string or a number.
TemplateString(v) == IF v.kind = "number" THEN NumberToString(v.n) ELSE v.chars

\* The rank records formatRankText is given: null, and records whose tier is
\* missing, "" or a tier name in some letter case; whose division is missing, null, "" or
\* "II"; and whose leaguePoints is missing, null, 0 or 45.
FormatInputs ==
    {NullData} \cup
    [kind : {"rank"},
     tier : {Undefined, JsString(<<>>)} \cup
            {JsString(t) : t \in {<<"g", "o", "l", "d">>,
                                     <<"G", "o", "l", "d">>,
                                     <<"u", "n", "r", "a", "n", "k", "e", "d">>,
                                     <<"U", "n", "R", "a", "n", "k", "e", "d">>,
                                     <<"m", "a", "s", "t", "e", "r">>,
                                     <<"G", "R", "A", "N", "D", "M", "A", "S", "T", "E", "R">>,
                                     <<"C", "h", "a", "l", "l", "e", "n", "g", "e", "r">>}},
     division : {Undefined, NullData, JsString(<<>>), JsString(<<"I", "I">>)},
     leaguePoints : {Undefined, NullData, JsNumber(0), JsNumber(45)}]

UNRANKED == <<"U", "N", "R", "A", "N", "K", "E", "D">>

\* `["MASTER", "GRANDMASTER", "CHALLENGER"]`
ApexTiers ==
    {<<"M", "A", "S", "T", "E", "R">>,
     <<"G", "R", "A", "N", "D", "M", "A", "S", "T", "E", "R">>,
     <<"C", "H", "A", "L", "L", "E", "N", "G", "E", "R">>}

\* The leaguePoints test with `if (rankData.leaguePoints)`.
HasLeaguePointsTruthy(lp) == Truthy(lp)

\* `rankData.leaguePoints !== undefined && rankData.leaguePoints !== null`
HasLeaguePoints(lp) == lp.kind \notin {"undefined", "null"}

formatRankText(rankData) ==
    IF rankData.kind # "rank" \/ ~Truthy(rankData.tier) THEN UNRANKED
    ELSE LET tierUpper == toUpperCase(rankData.tier.chars)
             withDivision ==
                 IF Truthy(rankData.division) /\ tierUpper \notin ApexTiers
                 THEN tierUpper \o <<" ">> \o TemplateString(rankData.division)
                 ELSE tierUpper
         IN  IF tierUpper = UNRANKED THEN UNRANKED
             ELSE IF HasLeaguePoints(rankData.leaguePoints)
                  THEN withDivision \o <<" ", "-", " ">>
                           \o TemplateString(rankData.leaguePoints) \o <<" ", "L", "P">>
                  ELSE withDivision

\* A call of formatRankText: it reads and writes no state.
FormatCall(rankData) ==
    /\ UNCHANGED <<handle, enabled, now, rankCache, pendingRequests, userBadges, isLoading,
                   lookups, touched, notFound>>
    /\ lastOp' = Op("formatRankText", rankData, "", formatRankText(rankData), FALSE)

NextFormat == \E rankData \in FormatInputs : FormatCall(rankData)

\* formatRankText applied to every input, from the initial state.
SpecFormat == Init /\ [][NextFormat]_vars

\* ================================================================== claims

Calls == {"fetchRankData", "getOrFetchBadge", "getCachedRankData"}

\* The key a recorded operation is about.
KeyOf(o) == toLowerCase(o.user)

\* A number of minutes in time units of 15 minutes.
Minutes(m) == m \div 15

\* The lifetime the specification gives an entry: 60 minutes for a rank
\* record, 15 minutes for null.
TTL(entry) == IF entry.data.kind = "null" THEN Minutes(15) ELSE Minutes(60)

\* The entries cache c holds under exactly the key k.
EntriesOf(c, k) == {c[i] : i \in {j \in 1..Len(c) : c[j].key = k}}

\* The value cache c holds under exactly the key k at time t, if it is not
\* past its lifetime.
Held(c, k, t) ==
    IF \E e \in EntriesOf(c, k) : t - e.timestamp <= TTL(e)
    THEN (CHOOSE e \in EntriesOf(c, k) : t - e.timestamp <= TTL(e)).data
    ELSE Undefined

\* C1: in every reachable state at most one network call is in flight for any
\* normalized username.
C1_AtMostOneInFlight ==
    \A id1 \in DOMAIN lookups, id2 \in DOMAIN lookups :
        (/\ lookups[id1].key = lookups[id2].key
         /\ lookups[id1].phase = "fetching"
         /\ lookups[id2].phase = "fetching") => id1 = id2

\* C2: a fetchRankData call for an uncached username, in any spelling, made
\* while a lookup for that username is still in flight, issues no network
\* call and returns the promise of that lookup, so that both callers get the
\* same result.
C2_SecondCallShares ==
    [][(/\ lastOp'.op = "fetchRankData"
        /\ ~Skips(lastOp'.user)
        /\ Held(rankCache, KeyOf(lastOp'), now) = Undefined
        /\ \E id \in DOMAIN lookups : lookups[id].key = KeyOf(lastOp'))
       => (/\ ~lastOp'.net
           /\ lookups' = lookups
           /\ \E id \in DOMAIN lookups :
                  lookups[id].key = KeyOf(lastOp') /\ lastOp'.ret = PromiseOf(id))]_vars

\* C3: after a lookup has settled, on any exit path, the exception before the
\* first await included, the registry holds no entry for its username; no
\* registry entry is a promise that is already settled.
C3_SettledLeavesNoEntry ==
    /\ (lastOp.op = "settle" \/ lastOp.path = "threw")
           => KeyOf(lastOp) \notin DOMAIN pendingRequests
    /\ \A k \in DOMAIN pendingRequests :
           /\ pendingRequests[k].state = "pending"
           /\ pendingRequests[k].id \in DOMAIN lookups

\* C4: after a 404 for a username, with no clearCache and no eviction since,
\* a fetchRankData or getOrFetchBadge call for it within the negative TTL
\* issues no network call and yields null (the resolved value, the stored badge).
C4_NotFoundServedFromCache ==
    [][(/\ lastOp'.op \in {"fetchRankData", "getOrFetchBadge"}
        /\ ~Skips(lastOp'.user)
        /\ KeyOf(lastOp') \in DOMAIN notFound
        /\ now - notFound[KeyOf(lastOp')] <= Minutes(15))
       => (/\ ~lastOp'.net
           /\ lookups' = lookups
           /\ lastOp'.op = "fetchRankData" => lastOp'.ret = Fulfilled(NullData)
           /\ lastOp'.op = "getOrFetchBadge" =>
                  (/\ KeyOf(lastOp') \in DOMAIN userBadges'
                   /\ userBadges'[KeyOf(lastOp')] = NullData))]_vars

\* A lookup that ended in a soft failure: a non-404 error status, a rejected
\* fetch or body read, or an exception before the first await.
SoftFailure(o) ==
    \/ o.op = "settle" /\ o.path \in {"error", "exception"}
    \/ o.path = "threw"

\* C5: a lookup that ends in a soft failure resolves to null and leaves the
\* cache as it was; a fetchRankData call for that username made right after
\* it, with the feature enabled, issues a new network call.
C5_SoftFailureRetried ==
    [][/\ (lastOp'.op = "settle" /\ SoftFailure(lastOp'))
             => (lastOp'.ret = Fulfilled(NullData) /\ rankCache' = rankCache)
       /\ (/\ SoftFailure(lastOp)
           /\ lastOp'.op = "fetchRankData"
           /\ ~Skips(lastOp'.user)
           /\ KeyOf(lastOp') = KeyOf(lastOp))
             => (lastOp'.net /\ lookups' # lookups)]_vars

\* C6: while the feature flag is false, fetchRankData, getOrFetchBadge and
\* getCachedRankData issue no network call, yield no result (null for the
\* promise of fetchRankData, undefined for the other two) and leave the cache,
\* the registry, the badge store and the lookups in flight unchanged.
C6_DisabledIsNoOp ==
    [][(~enabled /\ lastOp'.op \in Calls)
       => (/\ ~lastOp'.net
           /\ lastOp'.ret = (IF lastOp'.op = "fetchRankData"
                             THEN Fulfilled(NullData) ELSE Undefined)
           /\ UNCHANGED <<rankCache, pendingRequests, userBadges, lookups>>)]_vars

\* A getOrFetchBadge call for a username whose rank is cached and not expired
\* was made while the flag is false, and the badge store has nothing for it.
C6_Witness ==
    /\ ~enabled
    /\ lastOp.op = "getOrFetchBadge"
    /\ Len(lastOp.user) > 0
    /\ Held(rankCache, KeyOf(lastOp), now).kind = "rank"
    /\ KeyOf(lastOp) \notin DOMAIN userBadges

\* C7: in every reachable state the cache holds at most MAX_CACHE_SIZE entries.
C7_SizeWithinCapacity == Len(rankCache) <= MAX_CACHE_SIZE

\* A lookup has just written a new key into a full cache: an entry was evicted
\* and the cache is full again.
C7_Witness ==
    /\ lastOp.op = "settle"
    /\ lastOp.removed # {}
    /\ Len(rankCache) = MAX_CACHE_SIZE

\* C8: when a lookup sets a new key in a cache that is at capacity, exactly
\* one entry is evicted, the one least recently touched (by a hit, a first
\* insertion or an overwrite), and every other entry stays as it was.
C8_EvictsLeastRecentlyTouched ==
    [][(/\ lastOp'.op = "settle"
        /\ lastOp'.path \in {"404", "invalid", "success"}
        /\ Len(rankCache) >= MAX_CACHE_SIZE
        /\ KeyOf(lastOp') \notin MapKeys(rankCache))
       => (/\ lastOp'.removed = EntriesOf(rankCache, touched[1])
           /\ Cardinality(lastOp'.removed) = 1
           /\ \A k \in MapKeys(rankCache) \ {touched[1]} :
                  EntriesOf(rankCache', k) = EntriesOf(rankCache, k))]_vars

\* C9: a getCachedRankData call finds an entry younger than its lifetime (60
\* minutes for a rank record, 15 minutes for null) and returns its value; it
\* finds an entry older than its lifetime, returns undefined and removes the
\* entry from the cache.
C9_ExpiryByKind ==
    [][(lastOp'.op = "getCachedRankData" /\ lastOp'.path = "get")
       => \A e \in EntriesOf(rankCache, KeyOf(lastOp')) :
              /\ now - e.timestamp < TTL(e) => lastOp'.ret = e.data
              /\ now - e.timestamp > TTL(e) =>
                     (/\ lastOp'.ret = Undefined
                      /\ e \in lastOp'.removed
                      /\ KeyOf(lastOp') \notin MapKeys(rankCache'))]_vars

\* A getCachedRankData call has just missed on a rank record older than 60
\* minutes and removed it, at an instant where a null entry would be long gone.
C9_Witness ==
    /\ lastOp.op = "getCachedRankData"
    /\ lastOp.path = "get"
    /\ lastOp.ret = Undefined
    /\ \E e \in lastOp.removed : e.data.kind = "rank" /\ now - e.timestamp > Minutes(60)

\* C10: every key of the cache, the registry and the badge store is a
\* lowercased username and the cache holds one entry per key; getCachedRankData
\* and fetchRankData, given a username in any spelling, return the value held
\* under the lowercased username.
C10_CaseInsensitiveKeys ==
    [][/\ \A k \in MapKeys(rankCache') \cup DOMAIN pendingRequests' \cup DOMAIN userBadges' :
              k = toLowerCase(k)
       /\ \A i, j \in 1..Len(rankCache') :
              rankCache'[i].key = rankCache'[j].key => i = j
       /\ (lastOp'.op = "getCachedRankData" /\ lastOp'.path = "get")
              => lastOp'.ret = Held(rankCache, KeyOf(lastOp'), now)
       /\ (/\ lastOp'.op = "fetchRankData"
           /\ ~Skips(lastOp'.user)
           /\ Held(rankCache, KeyOf(lastOp'), now) # Undefined)
              => lastOp'.ret = Fulfilled(Held(rankCache, KeyOf(lastOp'), now))]_vars

\* getCachedRankData("Foo") has just returned the rank record that a lookup
\* stored under "foo", the only entry of the cache.
C10_Witness ==
    /\ lastOp.op = "getCachedRankData"
    /\ lastOp.user = <<"F", "o", "o">>
    /\ lastOp.ret.kind = "rank"
    /\ MapKeys(rankCache) = {<<"f", "o", "o">>}
    /\ Len(rankCache) = 1

\* A value fetchRankData may resolve to: a rank record or null.
RankOrNull(v) == v.kind \in {"rank", "null"}

\* C11: every promise fetchRankData returns is fulfilled with a rank record
\* or null, or is the promise of a lookup in flight; a lookup in flight
\* eventually settles, and it settles fulfilled with a rank record or null,
\* never rejected, on every outcome of the network call and the body read.
C11_AlwaysResolves ==
    /\ [](lastOp.op = "fetchRankData" =>
             \/ lastOp.ret.state = "fulfilled" /\ RankOrNull(lastOp.ret.value)
             \/ lastOp.ret.state = "pending" /\ lastOp.ret.id \in DOMAIN lookups)
    /\ [](lastOp.op = "settle" =>
             lastOp.ret.state = "fulfilled" /\ RankOrNull(lastOp.ret.value))
    /\ \A id \in 1..MaxLookups : (id \in DOMAIN lookups) ~> (id \notin DOMAIN lookups)

\* A lookup whose fetch or body read threw has just settled, fulfilled with
\* null, and no lookup is left in flight.
C11_Witness ==
    /\ lastOp.op = "settle"
    /\ lastOp.path = "exception"
    /\ lastOp.ret = Fulfilled(NullData)
    /\ lookups = EmptyObj

\* The badge store holds badge under key.
Stores(store, key, badge) == key \in DOMAIN store /\ store[key] = badge

\* C12: for a getOrFetchBadge call made with the feature enabled and a
\* non-empty username, the badge store holds the badge projected from the
\* lookup's result once the lookup has settled: at once when the call hits the
\* cache (or its lookup throws before the first await), and at the settlement
\* when the call started the lookup or found one already in flight.
C12_BadgeFollowsLookup ==
    [][/\ (lastOp'.op = "getOrFetchBadge" /\ lastOp'.path = "hit")
             => Stores(userBadges', KeyOf(lastOp'),
                       BadgeFor(Held(rankCache, KeyOf(lastOp'), now)))
       /\ (lastOp'.op = "getOrFetchBadge" /\ lastOp'.path = "threw")
             => Stores(userBadges', KeyOf(lastOp'), NullData)
       /\ (/\ lastOp'.op = "settle"
           /\ \/ \E id \in DOMAIN lookups \ DOMAIN lookups' : lookups[id].then
              \/ /\ lastOp.op = "getOrFetchBadge"
                 /\ lastOp.path \in {"start", "pending"}
                 /\ KeyOf(lastOp) = KeyOf(lastOp'))
             => Stores(userBadges', KeyOf(lastOp'), BadgeFor(lastOp'.ret.value))]_vars

\* C13: whenever a lookup settles, whichever call started it, the badge store
\* entry of its username is overwritten with the badge projected from its
\* result: the badge on success, null on not-found, invalid body and error.
C13_SettleStoresBadge ==
    [][lastOp'.op = "settle"
       => Stores(userBadges', KeyOf(lastOp'), BadgeFor(lastOp'.ret.value))]_vars

\* C14: for each instance, isLoading is true while a network call that the
\* instance issued is in flight, and false when the instance has no lookup
\* in flight.
C14_LoadingWhileInFlight ==
    \A inst \in Instances :
        /\ (\E id \in DOMAIN lookups :
                lookups[id].inst = inst /\ lookups[id].phase = "fetching")
               => isLoading[inst]
        /\ (\A id \in DOMAIN lookups : lookups[id].inst # inst) => ~isLoading[inst]

\* C15: in the state right after clearCache the cache has no entry, the
\* registry is empty and the badge store has no key.
C15_ResetEmptiesAll ==
    lastOp.op = "clearCache" =>
        /\ Len(rankCache) = 0
        /\ DOMAIN pendingRequests = {}
        /\ DOMAIN userBadges = {}

\* clearCache has just removed entries from the cache while a lookup is in
\* flight.
C15_Witness ==
    /\ lastOp.op = "clearCache"
    /\ lastOp.removed # {}
    /\ \E id \in DOMAIN lookups : lookups[id].phase = "fetching"

\* The frame of getCachedRankData: no network call, and the registry, the
\* badge store and the lookups in flight as they were.
PeekFrame ==
    /\ ~lastOp'.net
    /\ UNCHANGED <<pendingRequests, userBadges, lookups>>

\* C16 as stated: every getCachedRankData call keeps the frame and returns
\* what the cache holds unexpired under the lowercased username (a rank
\* record, null, or undefined when it holds nothing).
C16_PeekReturnsHeld ==
    [][lastOp'.op = "getCachedRankData"
       => (PeekFrame /\ lastOp'.ret = Held(rankCache, KeyOf(lastOp'), now))]_vars

\* C16 amended: every getCachedRankData call keeps the frame; with the
\* feature flag true it returns what the cache holds unexpired under the
\* lowercased username, and with the flag false it returns undefined.
C16_PeekReturnsHeldWhenEnabled ==
    [][lastOp'.op = "getCachedRankData"
       => (/\ PeekFrame
           /\ lastOp'.ret = (IF enabled THEN Held(rankCache, KeyOf(lastOp'), now)
                             ELSE Undefined))]_vars

\* getCachedRankData("foo") has just returned null, the unexpired negative
\* entry, with the feature enabled.
C16_Witness ==
    /\ enabled
    /\ lastOp.op = "getCachedRankData"
    /\ lastOp.user = <<"f", "o", "o">>
    /\ lastOp.ret = NullData
    /\ Held(rankCache, <<"f", "o", "o">>, now) = NullData

\* The body carries a tier that is one of the fixed tiers in some letter case.
HasRecognizedTier(data) ==
    /\ data.kind = "object"
    /\ data.rank_tier.kind = "string"
    /\ toLowerCase(data.rank_tier.chars) \in RANK_TIERS

\* The cache c holds under key exactly one entry, written at time t with data.
Written(c, key, data, t) ==
    EntriesOf(c, key) = {[key |-> key, data |-> data, timestamp |-> t]}

\* C17: when the body of a success-status response has been read, a body
\* with a recognized tier makes the lookup write a positive entry holding the
\* rank record built from it and resolve to that record; any other body (no
\* tier, or a tier outside the fixed tiers) makes it write a negative entry
\* and resolve to null.
C17_BodyValidation ==
    [][\A id \in DOMAIN lookups, data \in Bodies :
          ParseDone(id, data) =>
              LET key == lookups[id].key
                  rec == [kind |-> "rank", tier |-> data.rank_tier.chars] IN
              IF HasRecognizedTier(data)
              THEN lastOp'.ret = Fulfilled(rec) /\ Written(rankCache', key, rec, now)
              ELSE /\ lastOp'.ret = Fulfilled(NullData)
                   /\ Written(rankCache', key, NullData, now)]_vars

\* The field v of a rank record is present: neither missing nor null, and not
\* the empty string.
Present(v) == v.kind \notin {"undefined", "null"} /\ (v.kind = "string" => Len(v.chars) > 0)

\* The text of the leaguePoints values of FormatInputs.
PointsText(v) == IF v.n = 0 THEN <<"0">> ELSE <<"4", "5">>

\* What C18 says formatRankText returns for a rank record r.
RankTextOf(r) ==
    IF r.kind # "rank" \/ ~Present(r.tier) THEN UNRANKED
    ELSE IF toLowerCase(r.tier.chars) = <<"u", "n", "r", "a", "n", "k", "e", "d">> THEN UNRANKED
    ELSE toUpperCase(r.tier.chars)
         \o (IF /\ Present(r.division)
                 /\ toLowerCase(r.tier.chars) \notin
                        {<<"m", "a", "s", "t", "e", "r">>,
                         <<"g", "r", "a", "n", "d", "m", "a", "s", "t", "e", "r">>,
                         <<"c", "h", "a", "l", "l", "e", "n", "g", "e", "r">>}
              THEN <<" ">> \o r.division.chars ELSE <<>>)
         \o (IF r.leaguePoints.kind = "number"
              THEN <<" ", "-", " ">> \o PointsText(r.leaguePoints) \o <<" ", "L", "P">>
              ELSE <<>>)

\* C18: formatRankText returns "UNRANKED" when the tier is missing or is
\* unranked in any letter case; otherwise the uppercased tier, then
\* " {division}" when a division is present and the tier is none of master,
\* grandmaster, challenger, then " - {lp} LP" when leaguePoints is present,
\* 0 included.
C18_FormatRankText ==
    lastOp.op = "formatRankText" => lastOp.ret = RankTextOf(lastOp.user)

\* formatRankText({tier: "Gold", division: "II", leaguePoints: 0}) has
\* returned "GOLD II - 0 LP".
C18_Witness ==
    /\ lastOp.op = "formatRankText"
    /\ lastOp.user = [kind |-> "rank", tier |-> JsString(<<"G", "o", "l", "d">>),
                      division |-> JsString(<<"I", "I">>), leaguePoints |-> JsNumber(0)]
    /\ lastOp.ret = <<"G", "O", "L", "D", " ", "I", "I", " ", "-", " ", "0", " ", "L", "P">>

\* The registry reg holds the promise of lookup id under the lookup's key.
Registered(reg, ls, id) ==
    ls[id].key \in DOMAIN reg /\ reg[ls[id].key] = PromiseOf(id)

\* C19: the cleanup of a lookup that settles leaves the registry entry of
\* every other lookup in place: a lookup that is registered and still in
\* flight after the settlement is still registered.
C19_CleanupRemovesOwnEntry ==
    [][lastOp'.op = "settle"
       => \A id \in DOMAIN lookups' :
              Registered(pendingRequests, lookups, id)
                  => Registered(pendingRequests', lookups', id)]_vars

\* C20: the handle a component got from useEloWardBadge(u) reads the badge
\* store's current entry for lowercased u, and null when the store has none.
C20_HandleShowsStore ==
    handle.kind = "ref" =>
        HandleValue(handle, userBadges) =
            (IF handle.key \in DOMAIN userBadges THEN userBadges[handle.key] ELSE NullData)

\* C21: a lookup started before a reset writes neither the cache nor the
\* badge store after it. A lookup that settles in the very step after
\* clearCache was started before the reset, so that step leaves the cache and
\* the badge store as the reset left them: empty.
C21_NoWriteAcrossReset ==
    [][(lastOp.op = "clearCache" /\ lastOp'.op = "settle")
       => (/\ rankCache' = rankCache /\ Len(rankCache') = 0
           /\ userBadges' = userBadges /\ DOMAIN userBadges' = {})]_vars

====
